---- MODULE Spec2Model ----
(***************************************************************************)
(* Model of tools/mac_bundle_post_build.py: the post-build step that       *)
(* strips the bundle's executable, copies the non-system libraries it      *)
(* loads into <bundle>/Contents/Frameworks, rewrites the load references   *)
(* and packs the bundle into a disk image.                                 *)
(*                                                                         *)
(* Strings are sequences of one-character strings, so that the prefix,     *)
(* split, strip and os.path computations are carried out character by      *)
(* character as Python does them.  The file system is a function from      *)
(* absolute normalised paths to file records plus a set of directories.    *)
(***************************************************************************)
EXTENDS Integers, Sequences, FiniteSets, TLC

(***************************************************************************)
(* Python str methods                                                      *)
(***************************************************************************)
SLASH == "/"
SPACE == " "
TAB == "\t"
NEWLINE == "\n"
DOT == "."

\* the characters str.strip() removes that can occur here
WHITESPACE == {SPACE, TAB, NEWLINE}

\* s[a:b] for 1-based a and inclusive b, empty when a > b
Slice(s, a, b) == IF a > b THEN <<>> ELSE SubSeq(s, a, b)

\* str.startswith(prefix)
startswith(s, prefix) ==
    /\ Len(prefix) <= Len(s)
    /\ SubSeq(s, 1, Len(prefix)) = prefix

\* str.endswith(suffix)
endswith(s, suffix) ==
    /\ Len(suffix) <= Len(s)
    /\ SubSeq(s, Len(s) - Len(suffix) + 1, Len(s)) = suffix

\* index of the first occurrence of character c in s, 0 when there is none
find(s, c) ==
    IF \E k \in 1..Len(s) : s[k] = c
    THEN CHOOSE k \in 1..Len(s) : s[k] = c /\ \A m \in 1..(k - 1) : s[m] # c
    ELSE 0

\* index of the last occurrence of character c in s, 0 when there is none
rfind(s, c) ==
    IF \E k \in 1..Len(s) : s[k] = c
    THEN CHOOSE k \in 1..Len(s) : s[k] = c /\ \A m \in (k + 1)..Len(s) : s[m] # c
    ELSE 0

RECURSIVE split(_, _)
\* str.split(sep) for a one-character separator: never drops empty fields
split(s, sep) ==
    LET k == find(s, sep)
    IN  IF k = 0 THEN <<s>>
        ELSE <<Slice(s, 1, k - 1)>> \o split(Slice(s, k + 1, Len(s)), sep)

RECURSIVE splitlines(_)
\* str.splitlines(): like split on the newline, but no empty last line
splitlines(s) ==
    IF s = <<>> THEN <<>>
    ELSE LET k == find(s, NEWLINE)
         IN  IF k = 0 THEN <<s>>
             ELSE <<Slice(s, 1, k - 1)>> \o splitlines(Slice(s, k + 1, Len(s)))

RECURSIVE lstrip(_)
lstrip(s) == IF s # <<>> /\ Head(s) \in WHITESPACE THEN lstrip(Tail(s)) ELSE s

RECURSIVE rstrip(_)
rstrip(s) ==
    IF s # <<>> /\ s[Len(s)] \in WHITESPACE
    THEN rstrip(SubSeq(s, 1, Len(s) - 1)) ELSE s

\* str.strip()
strip(s) == rstrip(lstrip(s))

RECURSIVE rstripChar(_, _)
\* str.rstrip(c) for one character c
rstripChar(s, c) ==
    IF s # <<>> /\ s[Len(s)] = c THEN rstripChar(SubSeq(s, 1, Len(s) - 1), c) ELSE s

RECURSIVE concat(_)
\* ''.join(parts)
concat(parts) == IF parts = <<>> THEN <<>> ELSE Head(parts) \o concat(Tail(parts))

RECURSIVE joinWith(_, _)
\* sep.join(parts)
joinWith(parts, sep) ==
    IF parts = <<>> THEN <<>>
    ELSE IF Len(parts) = 1 THEN parts[1]
    ELSE parts[1] \o <<sep>> \o joinWith(Tail(parts), sep)

(***************************************************************************)
(* posixpath                                                               *)
(***************************************************************************)
\* os.path.join(a, b)
join(a, b) ==
    IF startswith(b, <<SLASH>>) THEN b
    ELSE IF a = <<>> \/ endswith(a, <<SLASH>>) THEN a \o b
    ELSE a \o <<SLASH>> \o b

\* os.path.join(a, b, c)
join3(a, b, c) == join(join(a, b), c)

\* os.path.basename(p): what follows the last slash
basename(p) == Slice(p, rfind(p, SLASH) + 1, Len(p))

\* os.path.dirname(p): what precedes the last slash, trailing slashes
\* removed unless it consists of slashes only
dirname(p) ==
    LET head == Slice(p, 1, rfind(p, SLASH))
    IN  IF head # <<>> /\ \E k \in 1..Len(head) : head[k] # SLASH
        THEN rstripChar(head, SLASH) ELSE head

\* os.path.splitext(p): <<root, ext>>; the extension starts at the last dot
\* of the last component, leading dots of that component not counted
splitext(p) ==
    LET sepIndex == rfind(p, SLASH)
        dotIndex == rfind(p, DOT)
    IN  IF dotIndex > sepIndex
           /\ \E k \in (sepIndex + 1)..(dotIndex - 1) : p[k] # DOT
        THEN <<Slice(p, 1, dotIndex - 1), Slice(p, dotIndex, Len(p))>>
        ELSE <<p, <<>>>>

RECURSIVE normComps(_, _, _)
\* the component loop of os.path.normpath: comps still to read, the
\* components kept so far, and whether the path is absolute
normComps(comps, kept, isAbs) ==
    IF comps = <<>> THEN kept
    ELSE LET comp == Head(comps)
             rest == Tail(comps)
         IN  IF comp = <<>> \/ comp = <<DOT>> THEN normComps(rest, kept, isAbs)
             ELSE IF comp # <<DOT, DOT>>
                     \/ (~isAbs /\ kept = <<>>)
                     \/ (kept # <<>> /\ kept[Len(kept)] = <<DOT, DOT>>)
                  THEN normComps(rest, Append(kept, comp), isAbs)
                  ELSE IF kept # <<>>
                  THEN normComps(rest, SubSeq(kept, 1, Len(kept) - 1), isAbs)
                  ELSE normComps(rest, kept, isAbs)

\* os.path.normpath(p)
normpath(p) ==
    LET isAbs == startswith(p, <<SLASH>>)
        kept == normComps(split(p, SLASH), <<>>, isAbs)
        body == joinWith(kept, SLASH)
    IN  IF isAbs THEN <<SLASH>> \o body
        ELSE IF body = <<>> THEN <<DOT>> ELSE body

\* the process's working directory: "/w"
CWD == <<"/", "w">>

\* os.path.abspath(p)
abspath(p) == normpath(join(CWD, p))

\* the non-empty components of an absolute normalised path
Components(p) == SelectSeq(split(p, SLASH), LAMBDA c : c # <<>>)

RECURSIVE commonLen(_, _)
\* length of the common prefix of two component lists
commonLen(a, b) ==
    IF a # <<>> /\ b # <<>> /\ Head(a) = Head(b)
    THEN 1 + commonLen(Tail(a), Tail(b)) ELSE 0

\* os.path.relpath(path, start)
relpath(path, start) ==
    LET startList == Components(abspath(start))
        pathList == Components(abspath(path))
        i == commonLen(startList, pathList)
        relList == [k \in 1..(Len(startList) - i) |-> <<DOT, DOT>>]
                   \o Slice(pathList, i + 1, Len(pathList))
    IN  IF relList = <<>> THEN <<DOT>> ELSE joinWith(relList, SLASH)

(***************************************************************************)
(* Program constants and the paths of the modelled machine                 *)
(***************************************************************************)
\* '/System/Library' and '/usr/lib'
EXCLUDE_LIB_DIRS ==
    << <<"/", "S", "y", "s", "t", "e", "m", "/", "L", "i", "b", "r", "a", "r", "y">>,
       <<"/", "u", "s", "r", "/", "l", "i", "b">> >>

CONTENTS == <<"C", "o", "n", "t", "e", "n", "t", "s">>
MACOS == <<"M", "a", "c", "O", "S">>
FRAMEWORKS == <<"F", "r", "a", "m", "e", "w", "o", "r", "k", "s">>
EXECUTABLE_PATH ==
    <<"@", "e", "x", "e", "c", "u", "t", "a", "b", "l", "e", "_", "p", "a", "t", "h">>
DMG_EXT == <<".", "d", "m", "g">>

\* the mode given to every copied library, 0o755
MODE_0755 == 493

\* None, and the value of a path variable not yet assigned
None == <<>>

\* library paths an executable of the modelled machine may reference
L_SYS == <<"/", "u", "s", "r", "/", "l", "i", "b", "/", "c">>
L_A == <<"/", "o", "/", "a", "/", "A">>
L_A2 == <<"/", "o", "/", "b", "/", "A">>
L_B == <<"/", "o", "/", "l", "/", "B">>
L_B1 == <<"/", "o", "/", "l", "/", "B", ".", "1">>
L_D == <<"/", "o", "/", "l", "/", "D">>
L_R == <<"@", "r", "p", "a", "t", "h", "/", "R">>

\* /o/l/B is a symbolic link to /o/l/B.1
Symlinks == (L_B :> L_B1)

\* os.path.realpath(p) on the modelled machine
realpath(p) ==
    LET a == abspath(p) IN IF a \in DOMAIN Symlinks THEN Symlinks[a] ELSE a

\* a Mach-O file: its install name (dylib only), the libraries it loads in
\* load-command order, its permission bits, whether its symbols are stripped
MachO(kind_, id_, deps_, mode_) ==
    [kind |-> kind_, id |-> id_, deps |-> deps_, mode |-> mode_, stripped |-> FALSE]

\* the libraries installed on the machine: A loads the system library and
\* B; the other /o/b/A loads nothing; B (real file B.1) loads D
InstalledLibs ==
    (L_SYS :> MachO("dylib", L_SYS, <<>>, 420))
    @@ (L_A :> MachO("dylib", L_A, <<L_SYS, L_B>>, 292))
    @@ (L_A2 :> MachO("dylib", L_A2, <<>>, 420))
    @@ (L_B1 :> MachO("dylib", L_B, <<L_D>>, 292))
    @@ (L_D :> MachO("dylib", L_D, <<>>, 420))

\* the references the bundle's executable may hold
LibPaths == {L_SYS, L_A, L_A2, L_B, L_R}

\* longest list of load references of the executable
MaxRefs == 2

\* how many external-tool calls may fail in one run
MaxToolFailures == 1

\* how often the tool is run on the same bundle
MaxRuns == 2

SeqsUpTo(S, n) == UNION {[1..k -> S] : k \in 0..n}

APP == <<"a", "p", "p">>
README == <<"r", "e", "a", "d", "m", "e">>
SUBDIR == <<"s", "u", "b">>
PROG == <<"p", "y">>

\* bundle paths given on the command line: b/Foo.app, b/Foo.app/ and Foo
BundleDirs ==
    { <<"b", "/", "F", "o", "o", ".", "a", "p", "p">>,
      <<"b", "/", "F", "o", "o", ".", "a", "p", "p", "/">>,
      <<"F", "o", "o">> }

VARIABLES
    argv,            \* sys.argv
    files,           \* regular files: absolute path -> file record
    dirs,            \* directories: set of absolute paths
    listing,         \* the order in which os.listdir lists Contents/MacOS
    pc,              \* position of main()
    run,             \* number of the current invocation of the tool
    exitCode,        \* exit status of the process, -1 while it runs
    err,             \* what ended the run early, "" when nothing did
    bundle_dir, macos_dir, frameworks_dir, exec_file,
    libs, i,         \* the outer loop: libs and the index of lib in it
    lib_deps, j,     \* the inner loop: lib_deps and the index of lib_dep
    dmg_file,
    nfail,           \* failed external-tool calls of this run
    log,             \* the external effects of this run, in order
    files0, dirs0    \* the file system when this run started

vars == <<argv, files, dirs, listing, pc, run, exitCode, err, bundle_dir,
          macos_dir, frameworks_dir, exec_file, libs, i, lib_deps, j,
          dmg_file, nfail, log, files0, dirs0>>

locals == <<bundle_dir, macos_dir, frameworks_dir, exec_file, libs, i,
            lib_deps, j, dmg_file>>

(***************************************************************************)
(* The file system and the external tools                                  *)
(***************************************************************************)
\* os.path.exists(p)
exists(p) == abspath(p) \in DOMAIN files \/ abspath(p) \in dirs

\* os.path.isfile(p)
isfile(p) == abspath(p) \in DOMAIN files

\* os.access(p, os.X_OK): a directory may be searched, a file needs the
\* owner's execute bit
access_X_OK(p) ==
    \/ abspath(p) \in dirs
    \/ /\ abspath(p) \in DOMAIN files
       /\ (files[abspath(p)].mode \div 64) % 2 = 1

\* an entry of the log
Event(op_, file_, arg_, ok_) == [op |-> op_, file |-> file_, arg |-> arg_, ok |-> ok_]

\* the outcomes an external tool call may have now
ToolOutcomes == IF nfail < MaxToolFailures THEN BOOLEAN ELSE {TRUE}

Failed(ok) == IF ok THEN nfail ELSE nfail + 1

\* the metadata otool prints after a path
VERSION_INFO == <<" ", "(", "v", " ", "1", ")">>

\* the text `otool -L file_` prints: the file name, then for a dylib its
\* own install name, then one line per load reference
otool_L(file_) ==
    LET f == files[abspath(file_)]
        names == (IF f.kind = "dylib" THEN <<f.id>> ELSE <<>>) \o f.deps
        line(n) == <<TAB>> \o n \o VERSION_INFO \o <<NEWLINE>>
    IN  file_ \o <<":", NEWLINE>>
        \o concat([k \in 1..Len(names) |-> line(names[k])])

\* line 46: the first space-separated field of the line, stripped
lib_file_of(line) == strip(split(line, SPACE)[1])

\* lines 47-51: None when the path starts with an excluded directory
excluded(lib_file) ==
    \E k \in 1..Len(EXCLUDE_LIB_DIRS) : startswith(lib_file, EXCLUDE_LIB_DIRS[k])

RECURSIVE libs_of_lines(_)
\* the loop of lines 45-52 over the lines left
libs_of_lines(lines) ==
    IF lines = <<>> THEN <<>>
    ELSE LET lib_file == lib_file_of(Head(lines))
         IN  (IF ~excluded(lib_file) /\ lib_file # <<>> THEN <<lib_file>> ELSE <<>>)
             \o libs_of_lines(Tail(lines))

\* lines 43-54 of get_used_libs, on the text check_output has returned
get_used_libs(libs_output) ==
    LET lines == splitlines(libs_output)
    IN  libs_of_lines(Slice(lines, 2, Len(lines)))

\* strip: removes the debug symbols of the file
strip_tool(fs, file_) == [fs EXCEPT ![abspath(file_)].stripped = TRUE]

\* install_name_tool -id name file
install_name_tool_id(fs, name, file_) == [fs EXCEPT ![abspath(file_)].id = name]

\* install_name_tool -change old new file: every load reference equal to old
\* becomes new; a file that does not reference old is left as it is
install_name_tool_change(fs, old, new, file_) ==
    LET deps == fs[abspath(file_)].deps
    IN  [fs EXCEPT ![abspath(file_)].deps =
            [k \in 1..Len(deps) |-> IF deps[k] = old THEN new ELSE deps[k]]]

\* shutil.copy(src, dstdir) into an existing directory: content and
\* permission bits of src under src's base name in dstdir
shutil_copy(fs, src, dstdir) ==
    LET dst == abspath(join(dstdir, basename(src)))
    IN  [p \in DOMAIN fs \cup {dst} |-> IF p = dst THEN fs[abspath(src)] ELSE fs[p]]

\* fault: the chmod is left out
chmod_skipped(fs, file_, mode) == fs

\* os.chmod(file, mode)
chmod(fs, file_, mode) == [fs EXCEPT ![abspath(file_)].mode = mode]

\* os.remove(file)
remove(fs, file_) == [p \in DOMAIN fs \ {abspath(file_)} |-> fs[p]]

\* hdiutil create ... -srcfolder bundle dmg_file
hdiutil_create(fs, srcfolder, file_) ==
    LET image == [kind |-> "dmg", id |-> srcfolder, deps |-> <<>>,
                  mode |-> 420, stripped |-> FALSE]
    IN  [p \in DOMAIN fs \cup {abspath(file_)} |->
            IF p = abspath(file_) THEN image ELSE fs[p]]

(***************************************************************************)
(* The state before the first run                                          *)
(***************************************************************************)
\* what Contents/MacOS holds: the executable alone, a data file listed
\* before the executable, a data file only, a subdirectory only, or the
\* directory itself is missing
ValidLayouts == {"app", "readme_app"}
BrokenLayouts == {"readme", "subdir", "nomacos"}

\* how the tool is called: on a bundle, without argument, on a missing path
Calls == {"bundle", "noarg", "nobundle"}

ContentsOf(bd) == join(abspath(bd), CONTENTS)
MacOSOf(bd) == join(ContentsOf(bd), MACOS)
FrameworksOf(bd) == join(ContentsOf(bd), FRAMEWORKS)

InitDirs(bd, call, layout, fwPre) ==
    IF call = "nobundle" THEN {}
    ELSE {abspath(bd), ContentsOf(bd)}
         \cup (IF layout = "nomacos" THEN {} ELSE {MacOSOf(bd)})
         \cup (IF layout = "subdir" THEN {join(MacOSOf(bd), SUBDIR)} ELSE {})
         \cup (IF fwPre THEN {FrameworksOf(bd)} ELSE {})

InitFiles(bd, call, layout, deps) ==
    LET app == join(MacOSOf(bd), APP) :> MachO("exec", None, deps, 493)
        readme == join(MacOSOf(bd), README) :> MachO("other", None, <<>>, 420)
    IN  IF call = "nobundle" THEN InstalledLibs
        ELSE CASE layout = "app" -> InstalledLibs @@ app
               [] layout = "readme_app" -> InstalledLibs @@ app @@ readme
               [] layout = "readme" -> InstalledLibs @@ readme
               [] OTHER -> InstalledLibs

InitListing(call, layout) ==
    IF call = "nobundle" THEN <<>>
    ELSE CASE layout = "app" -> <<APP>>
           [] layout = "readme_app" -> <<README, APP>>
           [] layout = "readme" -> <<README>>
           [] layout = "subdir" -> <<SUBDIR>>
           [] OTHER -> <<>>

\* the values of main's variables and of the run's bookkeeping at a start
Fresh ==
    /\ pc = "start"
    /\ exitCode = -1
    /\ err = ""
    /\ bundle_dir = None /\ macos_dir = None /\ frameworks_dir = None
    /\ exec_file = None /\ dmg_file = None
    /\ libs = <<>> /\ i = 0 /\ lib_deps = <<>> /\ j = 0
    /\ nfail = 0
    /\ log = <<>>

\* the first run is about to start on the given bundle
InitWith(bd, call, layout, deps, fwPre) ==
    /\ argv = IF call = "noarg" THEN <<PROG>> ELSE <<PROG, bd>>
    /\ dirs = InitDirs(bd, call, layout, fwPre)
    /\ files = InitFiles(bd, call, layout, deps)
    /\ listing = InitListing(call, layout)
    /\ run = 1
    /\ files0 = files /\ dirs0 = dirs
    /\ Fresh

Init ==
    \E bd \in BundleDirs, call \in Calls,
       layout \in ValidLayouts \cup BrokenLayouts,
       deps \in SeqsUpTo(LibPaths, MaxRefs), fwPre \in BOOLEAN :
        \* the runs that end in a usage error do not depend on the libraries
        /\ (call # "bundle" \/ layout \in BrokenLayouts) => (deps = <<L_A>> /\ ~fwPre)
        /\ call # "bundle" => layout = "app"
        \* the bundle without extension is the one with the data file
        /\ layout = "readme_app" <=> (call = "bundle" /\ bd = <<"F", "o", "o">>)
        /\ InitWith(bd, call, layout, deps, fwPre)

(***************************************************************************)
(* main()                                                                  *)
(***************************************************************************)
RECURSIVE get_exec_file_any_entry(_, _)
\* fault: get_exec_file without the os.path.isfile test
get_exec_file_any_entry(macos_dir_, items) ==
    IF items = <<>> THEN None
    ELSE LET file_ == join(macos_dir_, Head(items))
             executable == access_X_OK(file_)
         IN  IF executable THEN file_
             ELSE get_exec_file_any_entry(macos_dir_, Tail(items))

RECURSIVE get_exec_file_from(_, _)
\* the loop of get_exec_file over the entries left
get_exec_file_from(macos_dir_, items) ==
    IF items = <<>> THEN None
    ELSE LET file_ == join(macos_dir_, Head(items))
             executable == access_X_OK(file_)
         IN  IF isfile(file_) /\ executable THEN file_
             ELSE get_exec_file_from(macos_dir_, Tail(items))

\* get_exec_file(macos_dir) where os.listdir succeeds
get_exec_file(macos_dir_) == get_exec_file_from(macos_dir_, listing)

\* the process ends with the given status
Exit(code, e) ==
    /\ pc' = "exit"
    /\ exitCode' = code
    /\ err' = e

\* sys.exit(message) and an uncaught exception both end with status 1
Raise(e) == Exit(1, e)

\* lines 69-82: the checks of the argument, the bundle and the executable
Main_Usage ==
    /\ pc = "start"
    /\ UNCHANGED <<argv, files, dirs, listing, run, libs, i, lib_deps, j,
                   dmg_file, nfail, log, files0, dirs0>>
    /\ IF Len(argv) < 2
       THEN Raise("No input argument given.")
            /\ UNCHANGED <<bundle_dir, macos_dir, frameworks_dir, exec_file>>
       ELSE LET bd == argv[2]
                md == join3(bd, CONTENTS, MACOS)
                fd == join3(bd, CONTENTS, FRAMEWORKS)
            IN  IF ~exists(bd)
                THEN Raise("Bundle does not exist")
                     /\ bundle_dir' = bd
                     /\ UNCHANGED <<macos_dir, frameworks_dir, exec_file>>
                ELSE /\ bundle_dir' = bd
                     /\ macos_dir' = md
                     /\ frameworks_dir' = fd
                     /\ IF abspath(md) \notin dirs
                        THEN Raise("listdir: FileNotFoundError") /\ UNCHANGED exec_file
                        ELSE /\ exec_file' = get_exec_file(md)
                             /\ IF exec_file' = None
                                THEN Raise("Executable file not found")
                                ELSE /\ pc' = "strip"
                                     /\ UNCHANGED <<exitCode, err>>

\* line 84, strip_symbols: the exit status of strip is not looked at
StripSymbols ==
    /\ pc = "strip"
    /\ \E ok \in ToolOutcomes :
        /\ files' = IF ok THEN strip_tool(files, exec_file) ELSE files
        /\ nfail' = Failed(ok)
        /\ log' = Append(log, Event("strip", exec_file, None, ok))
    /\ pc' = "inspect_exec"
    /\ UNCHANGED <<argv, dirs, listing, run, exitCode, err, locals, files0, dirs0>>

\* lines 86-88: libs = get_used_libs(exec_file); check_output raises when
\* otool fails
InspectExec ==
    /\ pc = "inspect_exec"
    /\ \E ok \in ToolOutcomes :
        /\ nfail' = Failed(ok)
        /\ log' = Append(log, Event("otool", exec_file, None, ok))
        /\ IF ok
           THEN /\ libs' = get_used_libs(otool_L(exec_file))
                /\ pc' = IF libs' # <<>> THEN "makedirs" ELSE "create_dmg"
                /\ UNCHANGED <<exitCode, err>>
           ELSE Raise("CalledProcessError") /\ UNCHANGED libs
    /\ UNCHANGED <<argv, files, dirs, listing, run, bundle_dir, macos_dir,
                   frameworks_dir, exec_file, i, lib_deps, j, dmg_file,
                   files0, dirs0>>

\* fault: os.makedirs(path, exist_ok=True) never raises for a directory
makedirs_exist_ok(path) == FALSE

\* os.makedirs(path) without exist_ok raises FileExistsError when the path
\* exists
makedirs_raises(path) == exists(path)

\* line 89: os.makedirs(frameworks_dir)
MakeFrameworksDir ==
    /\ pc = "makedirs"
    /\ IF makedirs_raises(frameworks_dir)
       THEN /\ Raise("FileExistsError")
            /\ log' = Append(log, Event("makedirs", frameworks_dir, None, FALSE))
            /\ UNCHANGED <<dirs, i>>
       ELSE /\ dirs' = dirs \cup {abspath(frameworks_dir)}
            /\ log' = Append(log, Event("makedirs", frameworks_dir, None, TRUE))
            /\ i' = 1
            /\ pc' = "copy"
            /\ UNCHANGED <<exitCode, err>>
    /\ UNCHANGED <<argv, files, listing, run, bundle_dir, macos_dir,
                   frameworks_dir, exec_file, libs, lib_deps, j, dmg_file,
                   nfail, files0, dirs0>>

\* lines 92-94 for the current lib
orig_lib_file == realpath(libs[i])
lib_file == join(frameworks_dir, basename(orig_lib_file))

\* lines 100-101 and 113-114: the reference that replaces the old one
new_lib_path(file_) == join(EXECUTABLE_PATH, relpath(file_, macos_dir))

\* lines 91-98: copy the library into the bundle and make it executable
CopyLib ==
    /\ pc = "copy"
    /\ IF isfile(orig_lib_file)
       THEN /\ files' = chmod(shutil_copy(files, orig_lib_file, frameworks_dir),
                              lib_file, MODE_0755)
            /\ log' = Append(log, Event("copy", orig_lib_file, lib_file, TRUE))
            /\ pc' = "rewrite_id"
            /\ UNCHANGED <<exitCode, err>>
       ELSE /\ Raise("copy: FileNotFoundError")
            /\ log' = Append(log, Event("copy", orig_lib_file, lib_file, FALSE))
            /\ UNCHANGED files
    /\ UNCHANGED <<argv, dirs, listing, run, locals, nfail, files0, dirs0>>

\* lines 102-103: the copy's own install name; the status is not looked at
RewriteId ==
    /\ pc = "rewrite_id"
    /\ \E ok \in ToolOutcomes :
        /\ files' = IF ok THEN install_name_tool_id(files, new_lib_path(lib_file), lib_file)
                    ELSE files
        /\ nfail' = Failed(ok)
        /\ log' = Append(log, Event("id", lib_file, new_lib_path(lib_file), ok))
    /\ pc' = "rewrite_exec"
    /\ UNCHANGED <<argv, dirs, listing, run, exitCode, err, locals, files0, dirs0>>

\* fault: the status of install_name_tool is checked and a failure raises
RewriteExecRef_checked ==
    /\ pc = "rewrite_exec"
    /\ \E ok \in ToolOutcomes :
        /\ files' = IF ok
                    THEN install_name_tool_change(files, libs[i],
                                                  new_lib_path(lib_file), exec_file)
                    ELSE files
        /\ nfail' = Failed(ok)
        /\ log' = Append(log, Event("change", exec_file, libs[i], ok))
        /\ IF ok THEN pc' = "inspect_lib" /\ UNCHANGED <<exitCode, err>>
           ELSE Raise("CalledProcessError")
    /\ UNCHANGED <<argv, dirs, listing, run, locals, files0, dirs0>>

\* lines 104-105: the executable's reference to lib
RewriteExecRef ==
    /\ pc = "rewrite_exec"
    /\ \E ok \in ToolOutcomes :
        /\ files' = IF ok
                    THEN install_name_tool_change(files, libs[i],
                                                  new_lib_path(lib_file), exec_file)
                    ELSE files
        /\ nfail' = Failed(ok)
        /\ log' = Append(log, Event("change", exec_file, libs[i], ok))
    /\ pc' = "inspect_lib"
    /\ UNCHANGED <<argv, dirs, listing, run, exitCode, err, locals, files0, dirs0>>

\* fault: the disk image is built after the first library
AfterLib_first_only == i' = i /\ pc' = "create_dmg"

\* where main goes when the inner loop over lib_deps is over
AfterLib ==
    IF i < Len(libs)
    THEN i' = i + 1 /\ pc' = "copy"
    ELSE i' = i /\ pc' = "create_dmg"

\* fault: a failed inspection of a copy is taken for an empty list
InspectLib_failure_ignored ==
    /\ pc = "inspect_lib"
    /\ \E ok \in ToolOutcomes :
        /\ nfail' = Failed(ok)
        /\ log' = Append(log, Event("otool", lib_file, None, ok))
        /\ lib_deps' = IF ok THEN get_used_libs(otool_L(lib_file)) ELSE <<>>
        /\ IF lib_deps' # <<>>
           THEN j' = 1 /\ pc' = "rewrite_dep" /\ i' = i
           ELSE j' = j /\ AfterLib
        /\ UNCHANGED <<exitCode, err>>
    /\ UNCHANGED <<argv, files, dirs, listing, run, bundle_dir, macos_dir,
                   frameworks_dir, exec_file, libs, dmg_file, files0, dirs0>>

\* line 107: lib_deps = get_used_libs(lib_file)
InspectLib ==
    /\ pc = "inspect_lib"
    /\ \E ok \in ToolOutcomes :
        /\ nfail' = Failed(ok)
        /\ log' = Append(log, Event("otool", lib_file, None, ok))
        /\ IF ok
           THEN /\ lib_deps' = get_used_libs(otool_L(lib_file))
                /\ IF lib_deps' # <<>>
                   THEN j' = 1 /\ pc' = "rewrite_dep" /\ i' = i
                   ELSE j' = j /\ AfterLib
                /\ UNCHANGED <<exitCode, err>>
           ELSE Raise("CalledProcessError") /\ UNCHANGED <<lib_deps, i, j>>
    /\ UNCHANGED <<argv, files, dirs, listing, run, bundle_dir, macos_dir,
                   frameworks_dir, exec_file, libs, dmg_file, files0, dirs0>>

\* fault: the base name of the reference instead of that of its real path
lib_dep_file_no_realpath == join(frameworks_dir, basename(lib_deps[j]))

\* lines 110-112 for the current lib_dep
lib_dep_file == join(frameworks_dir, basename(realpath(lib_deps[j])))

\* lines 109-116: the copy's reference to one of its own libraries
RewriteDep ==
    /\ pc = "rewrite_dep"
    /\ \E ok \in ToolOutcomes :
        /\ files' = IF ok
                    THEN install_name_tool_change(files, lib_deps[j],
                                                  new_lib_path(lib_dep_file), lib_file)
                    ELSE files
        /\ nfail' = Failed(ok)
        /\ log' = Append(log, Event("change", lib_file, lib_deps[j], ok))
    /\ IF j < Len(lib_deps)
       THEN j' = j + 1 /\ pc' = "rewrite_dep" /\ i' = i
       ELSE j' = j /\ AfterLib
    /\ UNCHANGED <<argv, dirs, listing, run, exitCode, err, bundle_dir, macos_dir,
                   frameworks_dir, exec_file, libs, lib_deps, dmg_file,
                   files0, dirs0>>

\* lines 59-60: the path of the disk image
dmg_file_of(bundle_dir_) ==
    LET name == splitext(basename(bundle_dir_))[1]
    IN  join(dirname(bundle_dir_), name \o DMG_EXT)

\* line 118, create_dmg, and the return of main: a file at the path is
\* removed first; the status of hdiutil is not looked at
CreateDmg ==
    /\ pc = "create_dmg"
    /\ dmg_file' = dmg_file_of(bundle_dir)
    /\ IF abspath(dmg_file') \in dirs
       THEN \* os.remove of a directory raises
            /\ Raise("PermissionError")
            /\ log' = Append(log, Event("remove", dmg_file', None, FALSE))
            /\ UNCHANGED <<files, nfail>>
       ELSE \E ok \in ToolOutcomes :
            LET removed == IF exists(dmg_file') THEN remove(files, dmg_file') ELSE files
                removal == IF exists(dmg_file')
                           THEN <<Event("remove", dmg_file', None, TRUE)>> ELSE <<>>
            IN  /\ files' = IF ok THEN hdiutil_create(removed, bundle_dir, dmg_file')
                            ELSE removed
                /\ nfail' = Failed(ok)
                /\ log' = log \o removal
                              \o <<Event("hdiutil", dmg_file', bundle_dir, ok)>>
                /\ Exit(0, "")
    /\ UNCHANGED <<argv, dirs, listing, run, bundle_dir, macos_dir, frameworks_dir,
                   exec_file, libs, i, lib_deps, j, files0, dirs0>>

\* the tool is run again on the bundle a completed run has left
Rerun ==
    /\ pc = "exit"
    /\ exitCode = 0
    /\ run < MaxRuns
    /\ run' = run + 1
    /\ files0' = files /\ dirs0' = dirs
    /\ pc' = "start"
    /\ exitCode' = -1
    /\ err' = ""
    /\ bundle_dir' = None /\ macos_dir' = None /\ frameworks_dir' = None
    /\ exec_file' = None /\ dmg_file' = None
    /\ libs' = <<>> /\ i' = 0 /\ lib_deps' = <<>> /\ j' = 0
    /\ nfail' = 0
    /\ log' = <<>>
    /\ UNCHANGED <<argv, files, dirs, listing>>

Next ==
    \/ Main_Usage
    \/ StripSymbols
    \/ InspectExec
    \/ MakeFrameworksDir
    \/ CopyLib
    \/ RewriteId
    \/ RewriteExecRef
    \/ InspectLib
    \/ RewriteDep
    \/ CreateDmg
    \/ Rerun

Spec == Init /\ [][Next]_vars

(***************************************************************************)
(* Vocabulary of the properties                                            *)
(***************************************************************************)
\* the path lies under one of the system library locations, as a string
IsSystemPath(p) ==
    \E k \in DOMAIN EXCLUDE_LIB_DIRS :
        LET d == EXCLUDE_LIB_DIRS[k]
        IN  Len(d) <= Len(p) /\ \A m \in 1..Len(d) : p[m] = d[m]

\* the positions of the log that hold an event of one of the operations
EventsOf(ops) == {k \in 1..Len(log) : log[k].op \in ops}

\* the run has ended by main returning
Completed == pc = "exit" /\ exitCode = 0

\* the run has ended early, by sys.exit or by an exception
Aborted == pc = "exit" /\ exitCode # 0

\* the resolution of lines 86-116 is over and nothing ended it early
ResolutionDone == pc = "create_dmg" \/ Completed

\* the bundle named on the command line, as it was when the run started
BundleOnDisk == Len(argv) >= 2 /\ abspath(argv[2]) \in dirs0 \cup DOMAIN files0

\* the regular files with the owner's execute bit directly in Contents/MacOS
\* when the run started
ExecutablesOnDisk ==
    {p \in DOMAIN files0 :
        /\ dirname(p) = MacOSOf(argv[2])
        /\ (files0[p].mode \div 64) % 2 = 1}

\* one of the three usage errors applies to this run
UsageErrorCase ==
    \/ Len(argv) < 2
    \/ ~BundleOnDisk
    \/ ExecutablesOnDisk = {}

\* the load references the executable held when the run started that are
\* not under a system location
DirectDeps ==
    LET deps == files0[abspath(exec_file)].deps
    IN  {deps[k] : k \in {m \in 1..Len(deps) : ~IsSystemPath(deps[m])}}

\* Contents/Frameworks of the bundle named on the command line
TheFrameworksDir == IF Len(argv) >= 2 THEN FrameworksOf(argv[2]) ELSE None

\* this run has created Contents/Frameworks
CreatedFrameworks == \E k \in EventsOf({"makedirs"}) : log[k].ok

(***************************************************************************)
(* C1                                                                      *)
(***************************************************************************)
\* C1: when the argument is missing, the bundle path does not exist or
\* Contents/MacOS holds no executable regular file, the process ends with a
\* non-zero status and has done nothing: no tool was called, no directory
\* made, no file copied, removed or created.
C1_UsageErrorDoesNothing ==
    UsageErrorCase =>
        /\ pc \in {"start", "exit"}
        /\ pc = "exit" => exitCode # 0
        /\ log = <<>>
        /\ files = files0
        /\ dirs = dirs0

\* a bundle that exists but has only a subdirectory in Contents/MacOS has
\* been refused
C1_Witness ==
    /\ pc = "exit"
    /\ BundleOnDisk
    /\ join(MacOSOf(argv[2]), SUBDIR) \in dirs0
    /\ ExecutablesOnDisk = {}
    /\ err = "Executable file not found"

(***************************************************************************)
(* C2                                                                      *)
(***************************************************************************)
\* the run is past line 89 or has ended
PastMakedirs == pc \notin {"start", "strip", "inspect_exec", "makedirs"}

\* C2 as stated: the tool creates Contents/Frameworks if and only if the
\* inspection of the executable returns at least one non-system library.
C2_Original ==
    PastMakedirs => (CreatedFrameworks <=> libs # <<>>)

\* C2 amended: the tool creates Contents/Frameworks if and only if the
\* inspection of the executable returns at least one non-system library and
\* nothing exists at that path yet; with zero non-system direct
\* dependencies the directory is never created.
C2_CreatesFrameworksIff ==
    /\ PastMakedirs =>
        (CreatedFrameworks <=> (libs # <<>> /\ TheFrameworksDir \notin dirs0))
    /\ CreatedFrameworks <=> TheFrameworksDir \in dirs \ dirs0
    /\ (exec_file # None /\ DirectDeps = {}) => TheFrameworksDir \notin dirs \ dirs0

\* a run has created the directory for a non-empty list
C2_Witness ==
    /\ pc = "copy"
    /\ libs # <<>>
    /\ TheFrameworksDir \in dirs \ dirs0

(***************************************************************************)
(* C4                                                                      *)
(***************************************************************************)
\* C4: in a run that passes the usage checks and is not ended early, strip
\* runs once and before any inspection, the inspection of the executable
\* runs once and next, every direct library is then copied, and the disk
\* image builder runs once and last; nothing is copied or rewritten after
\* the disk image builder was called.
C4_StepOrder ==
    /\ log # <<>> => log[1].op = "strip"
    /\ EventsOf({"strip"}) \subseteq {1}
    /\ Len(log) >= 2 => (log[2].op = "otool" /\ log[2].file = exec_file)
    /\ \A k \in EventsOf({"hdiutil"}) : k = Len(log) /\ Completed
    /\ \A k \in EventsOf({"copy", "id", "change", "makedirs"}) : k > 2
    /\ Completed =>
        /\ Cardinality(EventsOf({"strip"})) = 1
        /\ Cardinality(EventsOf({"hdiutil"})) = 1
        /\ Cardinality({k \in EventsOf({"otool"}) : log[k].file = exec_file}) = 1
        /\ Cardinality(EventsOf({"copy"})) = Len(libs)
        /\ Cardinality(EventsOf({"id"})) = Len(libs)
        /\ \A k \in EventsOf({"copy"}) : log[k].ok

\* a run over two direct libraries has ended with the disk image
C4_Witness ==
    /\ Completed
    /\ Len(libs) = 2
    /\ log[Len(log)].op = "hdiutil"
    /\ Cardinality(EventsOf({"copy"})) = 2

(***************************************************************************)
(* C7                                                                      *)
(***************************************************************************)
\* C7: after a resolution that completes, Contents/Frameworks holds, for
\* every non-system direct dependency of the executable, a file named like
\* the dependency's real path, with mode 0755.
C7_LibsInFrameworks ==
    ResolutionDone =>
        \A d \in DirectDeps :
            LET copy == join(TheFrameworksDir, basename(realpath(d)))
            IN  /\ copy \in DOMAIN files
                /\ files[copy].mode = MODE_0755

\* two direct dependencies with the same base name have been resolved
C7_Witness ==
    /\ pc = "create_dmg"
    /\ DirectDeps = {L_A, L_A2}

(***************************************************************************)
(* C3                                                                      *)
(***************************************************************************)
\* further references, for the inspection alone: /System/Library/F,
\* /usr/libz/q and, with a space in a directory name, "/o/my l/C"
L_SYSF == <<"/", "S", "y", "s", "t", "e", "m", "/", "L", "i", "b", "r", "a", "r", "y", "/", "F">>
L_Z == <<"/", "u", "s", "r", "/", "l", "i", "b", "z", "/", "q">>
L_SP == <<"/", "o", "/", "m", "y", " ", "l", "/", "C">>

InspectPaths == LibPaths \cup {L_SYSF, L_Z, L_SP}

\* the bundle b/Foo.app with an executable holding any list of references
InitInspect ==
    \E deps \in SeqsUpTo(InspectPaths, MaxRefs) :
        InitWith(<<"b", "/", "F", "o", "o", ".", "a", "p", "p">>,
                 "bundle", "app", deps, FALSE)

\* main() up to and including the inspection of the executable
NextInspect ==
    \/ Main_Usage
    \/ StripSymbols
    \/ InspectExec

SpecInspect == InitInspect /\ [][NextInspect]_vars

\* the inspection of the executable has returned
Inspected == pc \in {"makedirs", "create_dmg"} /\ Len(log) = 2

\* C3: get_used_libs returns exactly the reported paths that start with no
\* prefix of EXCLUDE_LIB_DIRS, in the reported order, duplicates kept.
C3_Claim ==
    Inspected =>
        libs = SelectSeq(files0[abspath(exec_file)].deps,
                         LAMBDA p : ~IsSystemPath(p))

(***************************************************************************)
(* C5                                                                      *)
(***************************************************************************)
\* C5: a failed inspection, a failed creation of Contents/Frameworks or a
\* failed copy ends the run there: it is the last thing the run does, the
\* disk image builder is not called, and what was done before stays: the
\* executable is still stripped, the directory still exists, the copies are
\* still in it with mode 0755 and the executable's rewritten references
\* stay rewritten.
C5_FailureAbortsNoRollback ==
    /\ \A k \in EventsOf({"otool", "makedirs", "copy"}) :
        ~log[k].ok => (k = Len(log) /\ Aborted)
    /\ Aborted => (EventsOf({"hdiutil"}) = {} /\ ~ENABLED Next)
    /\ \A k \in EventsOf({"strip"}) :
        log[k].ok => files[abspath(log[k].file)].stripped
    /\ \A k \in EventsOf({"makedirs"}) :
        log[k].ok => abspath(log[k].file) \in dirs
    /\ \A k \in EventsOf({"copy"}) :
        log[k].ok => /\ abspath(log[k].arg) \in DOMAIN files
                     /\ files[abspath(log[k].arg)].mode = MODE_0755
    /\ \A k \in EventsOf({"change"}) :
        (log[k].ok /\ log[k].file = exec_file) =>
            \A m \in DOMAIN files[abspath(exec_file)].deps :
                files[abspath(exec_file)].deps[m] # log[k].arg

\* the copy of the second direct library has failed after the first one
\* was copied and the executable's reference to it rewritten
C5_Witness ==
    /\ Aborted
    /\ err = "copy: FileNotFoundError"
    /\ Len(libs) = 2 /\ i = 2
    /\ files[abspath(exec_file)].stripped
    /\ \E k \in EventsOf({"copy"}) : log[k].ok
    /\ \E k \in EventsOf({"change"}) : log[k].ok /\ log[k].file = exec_file
    /\ ~log[Len(log)].ok

(***************************************************************************)
(* C6                                                                      *)
(***************************************************************************)
\* the step has made a call of install_name_tool that failed
RewriteFailedStep ==
    /\ Len(log') = Len(log) + 1
    /\ log'[Len(log')].op \in {"id", "change"}
    /\ ~log'[Len(log')].ok

\* C6: a failed call of install_name_tool changes no file and does not end
\* the run; a run in which only such calls failed goes on to the disk image
\* builder and ends with status 0.
C6_RewriteFailureSwallowed ==
    /\ [][RewriteFailedStep =>
            /\ files' = files
            /\ pc' # "exit"
            /\ exitCode' = exitCode /\ err' = err]_vars
    /\ [](\A k \in EventsOf({"id", "change"}) :
            (~log[k].ok /\ pc = "exit"
                /\ \A m \in EventsOf({"otool", "makedirs", "copy"}) : log[m].ok)
            => (Completed /\ log[Len(log)].op = "hdiutil"))

\* a run in which the rewrite of the executable's reference failed has
\* ended with the disk image, the executable still referencing the library
C6_Witness ==
    /\ Completed
    /\ log[Len(log)].op = "hdiutil"
    /\ \E k \in EventsOf({"change"}) :
        /\ ~log[k].ok
        /\ log[k].file = exec_file
        /\ \E m \in DOMAIN files[abspath(exec_file)].deps :
            files[abspath(exec_file)].deps[m] = log[k].arg

(***************************************************************************)
(* C8                                                                      *)
(***************************************************************************)
\* the bundle's name with its extension replaced by .dmg, beside the bundle
SiblingDmg(bd) ==
    LET b == abspath(bd)
    IN  join(dirname(b), splitext(basename(b))[1] \o DMG_EXT)

\* C8: the disk image is written beside the bundle, never inside it, under
\* the bundle's name with the extension replaced by .dmg, and a file found
\* there is removed before the disk image builder is called.
C8_Claim ==
    \A k \in EventsOf({"hdiutil"}) :
        /\ abspath(log[k].file) = SiblingDmg(argv[2])
        /\ ~startswith(abspath(log[k].file), abspath(argv[2]) \o <<SLASH>>)
        /\ abspath(log[k].file) \in DOMAIN files0 =>
            (k > 1 /\ log[k - 1].op = "remove" /\ log[k - 1].file = log[k].file)

(***************************************************************************)
(* C9                                                                      *)
(***************************************************************************)
\* the copy in Contents/Frameworks that the real path of p is given
InFrameworks(p) == join(TheFrameworksDir, basename(realpath(p)))

\* the reference that stands for p after the rewrite
Relocated(p) ==
    EXECUTABLE_PATH \o <<"/", ".", ".", "/">> \o FRAMEWORKS \o <<SLASH>>
        \o basename(realpath(p))

\* the file a relocated reference names when the executable runs
Target(ref) == abspath(join(MacOSOf(argv[2]), Slice(ref, Len(EXECUTABLE_PATH) + 2, Len(ref))))

\* the k-th copy event of the log
CopyEvent(k) ==
    log[CHOOSE n \in EventsOf({"copy"}) :
            Cardinality({m \in EventsOf({"copy"}) : m <= n}) = k]

\* the direct libraries whose copy no later direct library of the same
\* real base name has overwritten
Surviving ==
    {m \in DOMAIN libs :
        \A q \in DOMAIN libs :
            q > m => basename(realpath(libs[q])) # basename(realpath(libs[m]))}

\* C9: only the direct libraries are copied and only the executable and
\* their copies are inspected; once a run has completed without a failed
\* tool call, every copy left in the bundle references each of its own
\* non-system libraries B as @executable_path/../Frameworks/basename(realpath(B)), and that file
\* exists exactly when a direct library has the same real base name.
C9_SecondLevelRewrittenNotCopied ==
    /\ Cardinality(EventsOf({"copy"})) <= Len(libs)
    /\ \A k \in 1..Cardinality(EventsOf({"copy"})) :
        CopyEvent(k).file = realpath(libs[k])
    /\ \A k \in EventsOf({"otool"}) :
        \/ log[k].file = exec_file
        \/ \E m \in DOMAIN libs : abspath(log[k].file) = InFrameworks(libs[m])
    /\ (Completed /\ nfail = 0) =>
        \A m \in Surviving :
            LET source == files0[realpath(libs[m])]
                copy == files[InFrameworks(libs[m])]
            IN  /\ Len(copy.deps) = Len(source.deps)
                /\ \A n \in DOMAIN source.deps :
                    LET B == source.deps[n]
                    IN  IF IsSystemPath(B) THEN copy.deps[n] = B
                        ELSE /\ copy.deps[n] = Relocated(B)
                             /\ Target(copy.deps[n]) = InFrameworks(B)
                             /\ InFrameworks(B) \in DOMAIN files <=>
                                    \E q \in DOMAIN libs :
                                        basename(realpath(libs[q]))
                                            = basename(realpath(B))

\* A alone was resolved: its copy references B.1 in Contents/Frameworks,
\* and there is no such file
C9_Witness ==
    /\ Completed /\ nfail = 0
    /\ libs = <<L_A>>
    /\ files[InFrameworks(L_A)].deps = <<L_SYS, Relocated(L_B)>>
    /\ basename(Relocated(L_B)) = <<"B", ".", "1">>
    /\ InFrameworks(L_B) \notin DOMAIN files

(***************************************************************************)
(* C10                                                                     *)
(***************************************************************************)
\* this run started on a bundle in which an earlier run had put libraries
AlreadyBundled ==
    /\ run > 1
    /\ \E p \in DOMAIN files0 : dirname(p) = TheFrameworksDir

\* the files of the file system that lie in Contents/Frameworks
BundledLibs(fs) == {p \in DOMAIN fs : dirname(p) = TheFrameworksDir}

\* C10 as stated: a second run on an already bundled bundle copies the
\* libraries again and completes, unless an external tool fails.
C10_Original ==
    (AlreadyBundled /\ pc = "exit" /\ nfail = 0) =>
        (Completed /\ EventsOf({"copy"}) # {})

\* C10 amended: a second run on an already bundled bundle copies nothing
\* and builds no disk image: it strips and inspects the executable, finds
\* non-system references, and ends with a non-zero status when the
\* creation of the existing Contents/Frameworks raises (or earlier, when
\* the inspection fails); the libraries of the first run stay as they were.
C10_SecondRunAborts ==
    AlreadyBundled =>
        /\ EventsOf({"copy", "id", "change", "hdiutil", "remove"}) = {}
        /\ \A p \in BundledLibs(files0) : p \in DOMAIN files /\ files[p] = files0[p]
        /\ BundledLibs(files) = BundledLibs(files0)
        /\ pc # "copy"
        /\ pc = "exit" =>
            /\ exitCode # 0
            /\ err \in {"FileExistsError", "CalledProcessError"}
            /\ nfail = 0 => err = "FileExistsError"

\* the second run has ended at the creation of the existing directory
C10_Witness ==
    /\ AlreadyBundled
    /\ pc = "exit"
    /\ err = "FileExistsError"
    /\ BundledLibs(files) # {}

====
